---- MODULE Spec2Model ----
(***************************************************************************)
(* Model of the localization editor (muqhc/the-multiverse).                *)
(*                                                                         *)
(* Strings are sequences of one-character strings, so that the path codec  *)
(* (substring, replaceAll, split, includes) is computed character by       *)
(* character as the code computes it.                                      *)
(***************************************************************************)
EXTENDS Integers, Sequences, FiniteSets, TLC

VARIABLES
    heap,               \* the row objects, by identity
    rows,               \* activeProject.rows: the identities of its row objects
    originalTargetData, \* activeProject.originalTargetData
    rowAiLoading,       \* the keys whose rowAiLoading flag is true
    loading,            \* the loading flag (the overlay that covers the editor)
    tasks,              \* the suggestion handlers suspended at their await
    io,                 \* the fetch or push handler suspended at its await
    cdc,    \* the codec run: a document, its flattening, its reconstruction
    rec,    \* the reconcile run: row table before and after a fetch
    qry,    \* the query run: a table, the in-flight flags, the query, what is shown
    prj     \* the project list: projects, activeProjectId, and the last operation on it

appVars == <<heap, rows, originalTargetData, rowAiLoading, loading, tasks, io>>
vars ==
    <<heap, rows, originalTargetData, rowAiLoading, loading, tasks, io, cdc, rec, qry, prj>>

(***************************************************************************)
(* String.prototype helpers, on sequences of characters                    *)
(***************************************************************************)
Includes(s, p) ==
    \E i \in 0..(Len(s) - Len(p)) : SubSeq(s, i + 1, i + Len(p)) = p

\* s.substring(a, b), 0 <= a <= b <= s.length
Substring(s, a, b) == SubSeq(s, a + 1, b)

RECURSIVE ReplaceAll(_, _, _)
\* s.replaceAll(p, r), p not empty: leftmost matches, not overlapping
ReplaceAll(s, p, r) ==
    IF Len(s) < Len(p) THEN s
    ELSE IF SubSeq(s, 1, Len(p)) = p
         THEN r \o ReplaceAll(SubSeq(s, Len(p) + 1, Len(s)), p, r)
         ELSE <<s[1]>> \o ReplaceAll(SubSeq(s, 2, Len(s)), p, r)

RECURSIVE SplitFrom(_, _, _)
SplitFrom(s, c, cur) ==
    IF s = <<>> THEN <<cur>>
    ELSE IF s[1] = c THEN <<cur>> \o SplitFrom(Tail(s), c, <<>>)
         ELSE SplitFrom(Tail(s), c, Append(cur, s[1]))

\* s.split(c) for a one-character separator
Split(s, c) == SplitFrom(s, c, <<>>)

\* the decimal rendering of an array index
IndexStr(i) ==
    IF i < 10 THEN <<<<"0", "1", "2", "3", "4", "5", "6", "7", "8", "9">>[i + 1]>>
    ELSE <<"1", <<"0", "1", "2", "3", "4", "5", "6", "7", "8", "9">>[i - 9]>>

(***************************************************************************)
(* Documents: parsed JSON.  A scalar carries its toString() in s; a        *)
(* container carries its members, in order, in m (an array's keys are its  *)
(* indices).                                                               *)
(***************************************************************************)
StrV(s)  == [t |-> "str",  s |-> s, m |-> <<>>]
NumV(s)  == [t |-> "num",  s |-> s, m |-> <<>>]
BoolV(s) == [t |-> "bool", s |-> s, m |-> <<>>]
ObjV(m)  == [t |-> "obj",  s |-> <<>>, m |-> m]
ArrV(m)  == [t |-> "arr",  s |-> <<>>, m |-> m]
Member(k, v) == [k |-> k, v |-> v]
\* an array literal: members keyed by their indices
ArrOf(items) == ArrV([i \in 1..Len(items) |-> Member(IndexStr(i - 1), items[i])])

Undefined == [t |-> "undefined", s |-> <<>>, m |-> <<>>]
TypeError == [t |-> "TypeError", s |-> <<>>, m |-> <<>>]

IsContainer(d) == d.t \in {"obj", "arr"}
IsScalar(d) == d.t \in {"str", "num", "bool"}

\* JavaScript truthiness of a value
Truthy(d) ==
    CASE d.t = "undefined" -> FALSE
      [] d.t = "str"  -> d.s # <<>>
      [] d.t = "num"  -> d.s # <<"0">>
      [] d.t = "bool" -> d.s = <<"t", "r", "u", "e">>
      [] OTHER -> TRUE

\* position of key k among members m, 0 when absent
IndexOfKey(m, k) ==
    IF \E i \in 1..Len(m) : m[i].k = k
    THEN CHOOSE i \in 1..Len(m) : m[i].k = k /\ \A j \in 1..(i - 1) : m[j].k # k
    ELSE 0

\* acc[k]
GetMember(d, k) ==
    IF IsContainer(d) /\ IndexOfKey(d.m, k) # 0 THEN d.m[IndexOfKey(d.m, k)].v
    ELSE Undefined

\* acc[k] = v on a container: an existing member keeps its place
SetMember(d, k, v) ==
    IF IndexOfKey(d.m, k) # 0
    THEN [d EXCEPT !.m = [d.m EXCEPT ![IndexOfKey(d.m, k)] = Member(k, v)]]
    ELSE [d EXCEPT !.m = Append(d.m, Member(k, v))]

RECURSIVE StructEq(_, _)
\* structural equality: objects compare as mappings, arrays member by member
StructEq(a, b) ==
    /\ a.t = b.t
    /\ a.s = b.s
    /\ Len(a.m) = Len(b.m)
    /\ \A i \in 1..Len(a.m) :
          /\ IndexOfKey(b.m, a.m[i].k) # 0
          /\ StructEq(a.m[i].v, GetMember(b, a.m[i].k))

(***************************************************************************)
(* PathCodec                                                               *)
(***************************************************************************)
\* walkjs WalkNode.getPath(): ["key"] for an object member, [i] for an array member
PathFormat(parentType, k) ==
    IF parentType = "arr" THEN <<"[">> \o k \o <<"]">>
    ELSE <<"[", "\"">> \o k \o <<"\"", "]">>

RECURSIVE WalkFrom(_, _, _)
RECURSIVE Walk(_, _)
\* the nodes walk() visits that pass the filter (neither object nor array), depth first
Walk(d, raw) ==
    IF IsContainer(d) THEN WalkFrom(d, raw, 1)
    ELSE <<[raw |-> raw, val |-> d]>>
WalkFrom(d, raw, i) ==
    IF i > Len(d.m) THEN <<>>
    ELSE Walk(d.m[i].v, raw \o PathFormat(d.t, d.m[i].k)) \o WalkFrom(d, raw, i + 1)

\* raw.substring(1, raw.length - 1).replaceAll("][", '.').replaceAll("\"", "\'")
FlatKey(raw) ==
    ReplaceAll(ReplaceAll(Substring(raw, 1, Len(raw) - 1), <<"]", "[">>, <<".">>),
               <<"\"">>, <<"'">>)

\* newObj[key] = val on a Record kept in insertion order
Put(flat, k, v) ==
    IF \E i \in 1..Len(flat) : flat[i].k = k
    THEN [i \in 1..Len(flat) |-> IF flat[i].k = k THEN [k |-> k, v |-> v] ELSE flat[i]]
    ELSE Append(flat, [k |-> k, v |-> v])

RECURSIVE PutAll(_, _, _)
PutAll(flat, nodes, i) ==
    IF i > Len(nodes) THEN flat
    ELSE PutAll(Put(flat, FlatKey(nodes[i].raw), nodes[i].val), nodes, i + 1)

flattenObject(obj) == PutAll(<<>>, Walk(obj, <<>>), 1)

HasKey(flat, k) == \E i \in 1..Len(flat) : flat[i].k = k
\* flat[k], undefined when absent
Lookup(flat, k) ==
    IF HasKey(flat, k) THEN (CHOOSE e \in {flat[i] : i \in 1..Len(flat)} : e.k = k).v
    ELSE Undefined
FlatKeys(flat) == [i \in 1..Len(flat) |-> flat[i].k]

RECURSIVE DeepCopy(_)
\* JSON.parse(JSON.stringify(base))
DeepCopy(d) ==
    [t |-> d.t, s |-> d.s,
     m |-> [i \in 1..Len(d.m) |-> Member(d.m[i].k, DeepCopy(d.m[i].v))]]

RECURSIVE Reduce(_, _, _, _)
\* keys.reduce(...) from segment j on, at container acc: the value acc becomes.
\* A write through a primitive (a scalar already at a prefix of the path) throws.
Reduce(acc, keys, j, val) ==
    LET k == ReplaceAll(keys[j], <<"'">>, <<>>)
        hasNext == j < Len(keys)
        old == GetMember(acc, k)
        descend(fresh) ==
            LET child == IF Truthy(old) THEN old ELSE fresh
                sub == Reduce(child, keys, j + 1, val)
            IN  IF sub = TypeError THEN TypeError ELSE SetMember(acc, k, sub)
    IN  IF ~IsContainer(acc) THEN TypeError
        ELSE IF hasNext /\ Includes(keys[j + 1], <<"'">>) THEN descend(ObjV(<<>>))
        ELSE IF hasNext /\ keys[j + 1] # <<>> THEN descend(ArrV(<<>>))
        ELSE IF hasNext THEN TypeError
        ELSE SetMember(acc, k, val)

RECURSIVE UnflattenFrom(_, _, _)
UnflattenFrom(result, data, i) ==
    IF i > Len(data) \/ result = TypeError THEN result
    ELSE UnflattenFrom(Reduce(result, Split(data[i].k, "."), 1, data[i].v), data, i + 1)

unflattenObject(data, base) == UnflattenFrom(DeepCopy(base), data, 1)

(***************************************************************************)
(* The documents the codec is run on                                       *)
(***************************************************************************)
MaxDepth == 2

KeyStrs == { <<"a">>, <<"b">>, <<"a", ".", "b">>, <<"i", "t", "'", "s">> }
Leaves == { StrV(<<"x">>), StrV(<<>>), NumV(<<"5">>), BoolV(<<"f", "a", "l", "s", "e">>) }

\* objects of at most two members and arrays of at most two items over the values V;
\* a second member is a leaf
ObjsOver(V) ==
    {ObjV(<<>>)}
    \cup {ObjV(<<Member(k, v)>>) : k \in KeyStrs, v \in V}
    \cup {ObjV(<<Member(kv[1], v), Member(kv[2], l)>>) :
            kv \in {x \in KeyStrs \X KeyStrs : x[1] # x[2]}, v \in V, l \in Leaves}
ArrsOver(V) ==
    {ArrOf(<<>>)}
    \cup {ArrOf(<<v>>) : v \in V}
    \cup {ArrOf(<<v, l>>) : v \in V, l \in Leaves}

RECURSIVE ValuesUpTo(_)
ValuesUpTo(d) ==
    IF d = 0 THEN Leaves
    ELSE Leaves \cup ObjsOver(ValuesUpTo(d - 1)) \cup ArrsOver(ValuesUpTo(d - 1))

\* a fetched file is a JSON object or array, nested to at most depth levels
CodecDocs(depth) == {d \in ValuesUpTo(depth) : IsContainer(d)}

(***************************************************************************)
(* Codec run: flatten a document, then unflatten the result over it        *)
(***************************************************************************)
CodecIdle == [phase |-> "off", doc |-> Undefined, flat |-> <<>>, out |-> Undefined]
RecIdle == [phase |-> "off"]
QryIdle == [phase |-> "off"]
PrjIdle == [phase |-> "off"]
IoNone == [op |-> "none", capRows |-> <<>>, content |-> Undefined]

\* createEmptyProject: no rows, originalTargetData {}; nothing in flight
AppInit ==
    /\ heap = <<>>
    /\ rows = <<>>
    /\ originalTargetData = ObjV(<<>>)
    /\ rowAiLoading = {}
    /\ loading = FALSE
    /\ tasks = <<>>
    /\ io = IoNone

CodecInit ==
    /\ cdc \in {[phase |-> "input", doc |-> d, flat |-> <<>>, out |-> Undefined] :
                  d \in CodecDocs(MaxDepth)}
    /\ rec = RecIdle
    /\ qry = QryIdle
    /\ prj = PrjIdle
    /\ AppInit

CodecFlatten ==
    /\ cdc.phase = "input"
    /\ cdc' = [cdc EXCEPT !.phase = "flat", !.flat = flattenObject(cdc.doc)]
    /\ UNCHANGED <<rec, qry, prj, appVars>>

CodecUnflatten ==
    /\ cdc.phase = "flat"
    /\ cdc' = [cdc EXCEPT !.phase = "done", !.out = unflattenObject(cdc.flat, cdc.doc)]
    /\ UNCHANGED <<rec, qry, prj, appVars>>

CodecNext == CodecFlatten \/ CodecUnflatten

SpecCodec == CodecInit /\ [][CodecNext]_vars

\* C5: for every document d, unflattenObject(flattenObject(d), d) is structurally
\* equal to d, including empty containers.
C5_RoundTrip == cdc.phase = "done" => StructEq(cdc.out, cdc.doc)

(***************************************************************************)
(* Reconciler: handleFetchFiles, from the two fetched documents to newRows *)
(***************************************************************************)
Row(k, sv, tv, otv, ai) ==
    [key |-> k, sourceValue |-> sv, targetValue |-> tv,
     originalTargetValue |-> otv, aiSuggestion |-> ai]

\* activeProject?.rows.filter(r => r.key === key)[0], as a sequence of at most one row
FindRow(rs, key) ==
    IF \E i \in 1..Len(rs) : rs[i].key = key
    THEN <<rs[CHOOSE i \in 1..Len(rs) :
                   rs[i].key = key /\ \A j \in 1..(i - 1) : rs[j].key # key]>>
    ELSE <<>>

\* flatTarget[key] ? flatTarget[key].toString() : flatSource[key].toString()
RemoteValue(flatSource, flatTarget, key) ==
    IF Truthy(Lookup(flatTarget, key)) THEN Lookup(flatTarget, key).s
    ELSE Lookup(flatSource, key).s

\* a mutant: the edit is dropped, the remote value always adopted
NewTargetValue_Adopt(found, flatSource, flatTarget, key) ==
    RemoteValue(flatSource, flatTarget, key)

\* a mutant: an undiverged row takes the source string, not the remote target
NewTargetValue_Source(found, flatSource, flatTarget, key) ==
    IF found = <<>> \/ found[1].targetValue = found[1].originalTargetValue
    THEN Lookup(flatSource, key).s
    ELSE found[1].targetValue

\* a mutant: a diverged row falls back to its old baseline
NewTargetValue_Baseline(found, flatSource, flatTarget, key) ==
    IF found = <<>> \/ found[1].targetValue = found[1].originalTargetValue
    THEN RemoteValue(flatSource, flatTarget, key)
    ELSE found[1].originalTargetValue

\* targetValue: (row?.targetValue === row?.originalTargetValue) ? remote : row?.targetValue || ''
NewTargetValue(found, flatSource, flatTarget, key) ==
    IF found = <<>> \/ found[1].targetValue = found[1].originalTargetValue
    THEN RemoteValue(flatSource, flatTarget, key)
    ELSE found[1].targetValue

\* a mutant: the suggestion is not carried over
NewAiSuggestion_Drop(found) == <<>>

\* aiSuggestion: row ? (row.aiSuggestion || '') : ''
NewAiSuggestion(found) == IF found = <<>> THEN <<>> ELSE found[1].aiSuggestion

\* a mutant: every leaf of the source becomes a row
IsRowKey_All(flatSource, key) == TRUE

\* .filter(key => typeof flatSource[key] === 'string')
IsRowKey(flatSource, key) == Lookup(flatSource, key).t = "str"

RECURSIVE ReconcileFrom(_, _, _, _)
ReconcileFrom(rs, flatSource, flatTarget, i) ==
    IF i > Len(flatSource) THEN <<>>
    ELSE LET key == flatSource[i].k
             found == FindRow(rs, key)
         IN  (IF IsRowKey(flatSource, key)
              THEN <<Row(key,
                         Lookup(flatSource, key).s,
                         NewTargetValue(found, flatSource, flatTarget, key),
                         RemoteValue(flatSource, flatTarget, key),
                         NewAiSuggestion(found))>>
              ELSE <<>>)
             \o ReconcileFrom(rs, flatSource, flatTarget, i + 1)

\* newRows of handleFetchFiles for the rows of the active project and the fetched files
Reconcile(rs, source, target) ==
    ReconcileFrom(rs, flattenObject(source), flattenObject(target), 1)

(***************************************************************************)
(* Reconcile run: fetches, with edits, merged suggestions and pushes in    *)
(* between, on a table of row values                                       *)
(***************************************************************************)
KA == <<"a">>
KB == <<"b">>
KN == <<"n">>
\* the key a'.'b, whose flattened path is that of the nested leaf a -> b
KQ == <<"a", "'", ".", "'", "b">>

SourceDocs ==
    { ObjV(<<Member(KA, StrV(<<"x">>)), Member(KB, StrV(<<"y">>))>>),
      ObjV(<<Member(KA, StrV(<<"w">>)), Member(KN, NumV(<<"5">>))>>),
      ObjV(<<Member(KA, ObjV(<<Member(KB, StrV(<<"x">>))>>)),
             Member(KQ, NumV(<<"5">>))>>),
      ObjV(<<Member(KB, ArrOf(<<StrV(<<"y">>), StrV(<<>>)>>))>>) }

TargetDocs ==
    { ObjV(<<>>),
      ObjV(<<Member(KA, StrV(<<"t">>))>>),
      ObjV(<<Member(KA, StrV(<<>>)), Member(KB, NumV(<<"7">>))>>),
      ObjV(<<Member(KA, ObjV(<<Member(KB, NumV(<<"0">>))>>)),
             Member(KB, ArrOf(<<StrV(<<"u">>)>>))>>) }

\* what the user types into a target field
EditValues == { <<>>, <<"z">> }
\* what the suggestion provider answers
SuggestionValues == { <<"s">> }

RecInit ==
    /\ rec = [phase |-> "start", prev |-> <<>>, tbl |-> <<>>,
              src |-> Undefined, tgt |-> Undefined]
    /\ cdc = CodecIdle
    /\ qry = QryIdle
    /\ prj = PrjIdle
    /\ AppInit

\* between fetches only the table matters
RecEdited == [phase |-> "edited", prev |-> <<>>, tbl |-> rec.tbl,
              src |-> Undefined, tgt |-> Undefined]

\* a fetch: the table is rebuilt from the fetched pair
RecFetch ==
    \E source \in SourceDocs, target \in TargetDocs :
        /\ rec' = [phase |-> "fetched", prev |-> rec.tbl,
                   tbl |-> Reconcile(rec.tbl, source, target),
                   src |-> source, tgt |-> target]
        /\ UNCHANGED <<cdc, qry, prj, appVars>>

\* the same pair fetched again with nothing in between
RecRefetch ==
    /\ rec.phase = "fetched"
    /\ rec' = [rec EXCEPT !.phase = "refetched", !.prev = rec.tbl,
                          !.tbl = Reconcile(rec.tbl, rec.src, rec.tgt)]
    /\ UNCHANGED <<cdc, qry, prj, appVars>>

\* textarea onChange
RecEdit ==
    \E i \in 1..Len(rec.tbl), v \in EditValues :
        /\ rec' = [RecEdited EXCEPT !.tbl[i].targetValue = v]
        /\ UNCHANGED <<cdc, qry, prj, appVars>>

\* a suggestion merged into a row, or discarded
RecSuggest ==
    \E i \in 1..Len(rec.tbl), v \in SuggestionValues \cup {<<>>} :
        /\ rec' = [RecEdited EXCEPT !.tbl[i].aiSuggestion = v]
        /\ UNCHANGED <<cdc, qry, prj, appVars>>

\* after a push every row's baseline is its targetValue
RecPush ==
    /\ \E i \in 1..Len(rec.tbl) : rec.tbl[i].targetValue # rec.tbl[i].originalTargetValue
    /\ rec' = [RecEdited EXCEPT
                 !.tbl = [i \in 1..Len(rec.tbl) |->
                            [rec.tbl[i] EXCEPT !.originalTargetValue = rec.tbl[i].targetValue]]]
    /\ UNCHANGED <<cdc, qry, prj, appVars>>

RecNext == RecFetch \/ RecRefetch \/ RecEdit \/ RecSuggest \/ RecPush

SpecReconcile == RecInit /\ [][RecNext]_vars

JustFetched == rec.phase \in {"fetched", "refetched"}
RowKeys(rs) == {rs[i].key : i \in 1..Len(rs)}
RowOf(rs, key) == FindRow(rs, key)[1]
Modified(r) == r.targetValue # r.originalTargetValue

\* C3: a row that was modified before the fetch and whose key the fetched source
\* still has keeps its targetValue exactly (whatever the fetched target holds).
C3_EditPreserved ==
    JustFetched =>
        \A i \in 1..Len(rec.prev) :
            (Modified(rec.prev[i]) /\ rec.prev[i].key \in RowKeys(rec.tbl))
                => RowOf(rec.tbl, rec.prev[i].key).targetValue = rec.prev[i].targetValue

C3_Witness ==
    /\ JustFetched
    /\ \E i \in 1..Len(rec.prev) :
          /\ Modified(rec.prev[i])
          /\ rec.prev[i].key \in RowKeys(rec.tbl)
          /\ RowOf(rec.tbl, rec.prev[i].key).originalTargetValue
                # rec.prev[i].targetValue

\* C4: reconciling the reconciled table against the same pair again changes no row.
C4_Idempotent == rec.phase = "refetched" => rec.tbl = rec.prev

C4_Witness ==
    /\ rec.phase = "refetched"
    /\ \E i \in 1..Len(rec.tbl) : Modified(rec.tbl[i]) /\ rec.tbl[i].aiSuggestion # <<>>

\* C6: originalTargetValue is the fetched target's value at the key whenever the
\* target has the key (the empty string included), the source value only otherwise.
C6_OriginalFromTarget ==
    JustFetched =>
        \A i \in 1..Len(rec.tbl) :
            LET key == rec.tbl[i].key
                flatTarget == flattenObject(rec.tgt)
            IN  rec.tbl[i].originalTargetValue =
                    IF HasKey(flatTarget, key) THEN Lookup(flatTarget, key).s
                    ELSE Lookup(flattenObject(rec.src), key).s

\* C7: a key with no previous row, or whose previous row was unmodified, gets
\* targetValue = originalTargetValue; after a first fetch no row is modified.
C7_AdoptRemote ==
    JustFetched =>
        \A i \in 1..Len(rec.tbl) :
            LET found == FindRow(rec.prev, rec.tbl[i].key)
            IN  (found = <<>> \/ ~Modified(found[1]))
                    => /\ rec.tbl[i].targetValue = rec.tbl[i].originalTargetValue
                       /\ rec.tbl[i].targetValue =
                            RemoteValue(flattenObject(rec.src), flattenObject(rec.tgt),
                                        rec.tbl[i].key)

C7_Witness ==
    /\ JustFetched
    /\ \E i \in 1..Len(rec.tbl) :
          /\ FindRow(rec.prev, rec.tbl[i].key) # <<>>
          /\ ~Modified(RowOf(rec.prev, rec.tbl[i].key))
          /\ RowOf(rec.prev, rec.tbl[i].key).targetValue # rec.tbl[i].targetValue
    /\ \E i \in 1..Len(rec.tbl) : FindRow(rec.prev, rec.tbl[i].key) = <<>>

RECURSIVE StringKeysFrom(_, _)
\* the flattened paths that hold a string, in order
StringKeysFrom(flat, i) ==
    IF i > Len(flat) THEN <<>>
    ELSE (IF flat[i].v.t = "str" THEN <<flat[i].k>> ELSE <<>>) \o StringKeysFrom(flat, i + 1)

C9_AiCarried ==
    JustFetched =>
        \A i \in 1..Len(rec.tbl) :
            LET found == FindRow(rec.prev, rec.tbl[i].key)
            IN  rec.tbl[i].aiSuggestion =
                    IF found = <<>> THEN <<>> ELSE found[1].aiSuggestion

C9_Witness ==
    /\ JustFetched
    /\ \E i \in 1..Len(rec.tbl) :
          /\ FindRow(rec.prev, rec.tbl[i].key) # <<>>
          /\ rec.tbl[i].aiSuggestion # <<>>
    /\ \E i \in 1..Len(rec.tbl) : FindRow(rec.prev, rec.tbl[i].key) = <<>>

(***************************************************************************)
(* QueryEvaluator: filteredRows.  Regular expressions are modelled for the *)
(* patterns made of literal characters, ".", "|" and "(": a pattern with a *)
(* "(" has an unterminated group and new RegExp throws a SyntaxError.      *)
(***************************************************************************)
UpperChars == <<"A", "B", "C", "D", "E", "F", "G", "H", "I", "J", "K", "L", "M",
                "N", "O", "P", "Q", "R", "S", "T", "U", "V", "W", "X", "Y", "Z">>
LowerChars == <<"a", "b", "c", "d", "e", "f", "g", "h", "i", "j", "k", "l", "m",
                "n", "o", "p", "q", "r", "s", "t", "u", "v", "w", "x", "y", "z">>
LowerChar(c) ==
    IF \E i \in 1..Len(UpperChars) : UpperChars[i] = c
    THEN LowerChars[CHOOSE i \in 1..Len(UpperChars) : UpperChars[i] = c]
    ELSE c
ToLowerCase(s) == [i \in 1..Len(s) |-> LowerChar(s[i])]

\* s.indexOf(p): 0-based, -1 when absent
IndexOf(s, p) ==
    IF Includes(s, p)
    THEN CHOOSE i \in 0..(Len(s) - Len(p)) :
            /\ SubSeq(s, i + 1, i + Len(p)) = p
            /\ \A j \in 0..(i - 1) : SubSeq(s, j + 1, j + Len(p)) # p
    ELSE -1

WhiteSpace == {" ", "\t", "\n"}
RECURSIVE TrimStart(_)
TrimStart(s) == IF s # <<>> /\ s[1] \in WhiteSpace THEN TrimStart(Tail(s)) ELSE s
RECURSIVE TrimEnd(_)
TrimEnd(s) ==
    IF s # <<>> /\ s[Len(s)] \in WhiteSpace THEN TrimEnd(SubSeq(s, 1, Len(s) - 1)) ELSE s
Trim(s) == TrimEnd(TrimStart(s))

RECURSIVE SplitStrFrom(_, _, _)
SplitStrFrom(s, sep, cur) ==
    IF s = <<>> THEN <<cur>>
    ELSE IF Len(s) >= Len(sep) /\ SubSeq(s, 1, Len(sep)) = sep
         THEN <<cur>> \o SplitStrFrom(SubSeq(s, Len(sep) + 1, Len(s)), sep, <<>>)
         ELSE SplitStrFrom(Tail(s), sep, Append(cur, s[1]))
\* s.split(sep) for a separator of one or more characters
SplitStr(s, sep) == SplitStrFrom(s, sep, <<>>)

Digits == {"0", "1", "2", "3", "4", "5", "6", "7", "8", "9"}
\* (/^.*\.\d+$/).test(key)
InArrayKey(key) ==
    \E i \in 1..(Len(key) - 1) :
        /\ key[i] = "."
        /\ \A j \in (i + 1)..Len(key) : key[j] \in Digits

TagModified  == <<"#", "m", "o", "d", "i", "f", "i", "e", "d">>
TagDone      == <<"#", "d", "o", "n", "e">>
TagUndone    == <<"#", "u", "n", "d", "o", "n", "e">>
TagDoing     == <<"#", "d", "o", "i", "n", "g">>
TagAi        == <<"#", "a", "i">>
TagNoAi      == <<"#", "n", "o", "a", "i">>
TagEmpty     == <<"#", "e", "m", "p", "t", "y">>
TagInArray   == <<"#", "i", "n", "a", "r", "r", "a", "y">>
TagAiFetching == <<"#", "a", "i", "f", "e", "t", "c", "h", "i", "n", "g">>
TagKey       == <<"#", "k", "e", "y">>
TagReg       == <<"#", "r", "e", "g">>

\* the text of the clause as typed, not trimmed
QueryWithoutTag_NoTrim(searchTerm) ==
    Substring(ToLowerCase(searchTerm), 0,
              IF Includes(searchTerm, <<"#">>) THEN IndexOf(searchTerm, <<"#">>)
              ELSE Len(searchTerm))

\* searchTerm.toLowerCase().substring(0, indexOf("#") or length).trim()
QueryWithoutTag(searchTerm) ==
    Trim(Substring(ToLowerCase(searchTerm), 0,
                   IF Includes(searchTerm, <<"#">>) THEN IndexOf(searchTerm, <<"#">>)
                   ELSE Len(searchTerm)))

\* the text predicate with #key ignored
TextMatches_AllFields(r, searchTerm) ==
    LET q == QueryWithoutTag(searchTerm)
    IN  \/ Includes(ToLowerCase(r.key), q)
        \/ Includes(ToLowerCase(r.sourceValue), q)
        \/ Includes(ToLowerCase(r.targetValue), q)

\* the text predicate of a clause without #reg
TextMatches(r, searchTerm) ==
    LET q == QueryWithoutTag(searchTerm)
    IN  \/ Includes(ToLowerCase(r.key), q)
        \/ /\ ~Includes(searchTerm, TagKey)
           /\ \/ Includes(ToLowerCase(r.sourceValue), q)
              \/ Includes(ToLowerCase(r.targetValue), q)

\* the tag predicates with #modified comparing against the source string
TagsMatch_ModifiedVsSource(r, searchTerm, aiLoading) ==
    LET has(tag) == Includes(searchTerm, tag)
    IN  /\ ~has(TagModified) \/ r.targetValue # r.sourceValue
        /\ ~has(TagAi) \/ r.aiSuggestion # <<>>
        /\ ~has(TagAiFetching) \/ r.key \in aiLoading

\* the tag predicates of a clause; aiLoading is the set of keys whose flag is true
TagsMatch(r, searchTerm, aiLoading) ==
    LET has(tag) == Includes(searchTerm, tag)
    IN  /\ ~has(TagModified) \/ r.targetValue # r.originalTargetValue
        /\ ~has(TagDone) \/ (/\ r.sourceValue # r.originalTargetValue
                             /\ r.targetValue = r.originalTargetValue)
        /\ ~has(TagUndone) \/ r.sourceValue = r.targetValue \/ r.targetValue = <<>>
        /\ ~has(TagDoing) \/ r.sourceValue = r.targetValue \/ r.targetValue = <<>>
              \/ r.targetValue # r.originalTargetValue
        /\ ~has(TagAi) \/ r.aiSuggestion # <<>>
        /\ ~has(TagNoAi) \/ r.aiSuggestion = <<>> \/ r.key \notin aiLoading
        /\ ~has(TagEmpty) \/ r.targetValue = <<>>
        /\ ~has(TagInArray) \/ InArrayKey(r.key)
        /\ ~has(TagAiFetching) \/ r.key \in aiLoading

\* new RegExp(pattern) throws: the pattern opens a group it does not close
RegExpSyntaxError(pattern) == Includes(pattern, <<"(">>)

\* new RegExp(pattern).test(s): some alternative of the pattern matches somewhere in s
RegExpTest(pattern, s) ==
    LET alts == Split(pattern, "|")
    IN  \E a \in 1..Len(alts), i \in 1..(Len(s) + 1) :
            /\ i + Len(alts[a]) - 1 <= Len(s)
            /\ \A j \in 1..Len(alts[a]) :
                  alts[a][j] = "." \/ alts[a][j] = s[i + j - 1]

\* the text predicate of a clause with #reg
RegMatches(r, searchTerm) ==
    LET q == QueryWithoutTag(searchTerm)
    IN  \/ RegExpTest(q, ToLowerCase(r.key))
        \/ /\ ~Includes(searchTerm, TagKey)
           /\ \/ RegExpTest(q, ToLowerCase(r.sourceValue))
              \/ RegExpTest(q, ToLowerCase(r.targetValue))

\* the body of the some() callback, when it returns: text predicate && tag predicates
ClauseMatches(r, searchTerm, aiLoading) ==
    /\ IF Includes(searchTerm, TagReg) THEN RegMatches(r, searchTerm)
       ELSE TextMatches(r, searchTerm)
    /\ TagsMatch(r, searchTerm, aiLoading)

\* the body of the some() callback throws: new RegExp(queryWithoutTag) is the first
\* thing a clause with #reg evaluates
ClauseThrows(searchTerm) ==
    Includes(searchTerm, TagReg) /\ RegExpSyntaxError(QueryWithoutTag(searchTerm))

\* searchTerms.toLowerCase().split("||")
Clauses(searchTerms) == SplitStr(ToLowerCase(searchTerms), <<"|", "|">>)

\* searchTerms.toLowerCase().split("||").some(...), when no clause it evaluates throws
RowMatches(r, searchTerms, aiLoading) ==
    LET clauses == Clauses(searchTerms)
    IN  \E c \in 1..Len(clauses) : ClauseMatches(r, clauses[c], aiLoading)

\* some() evaluates the clauses in order and stops at the first that matches: it
\* throws when it reaches a clause that throws
RowThrows(r, searchTerms, aiLoading) ==
    LET clauses == Clauses(searchTerms)
    IN  \E c \in 1..Len(clauses) :
            /\ ClauseThrows(clauses[c])
            /\ \A d \in 1..(c - 1) :
                  ~ClauseThrows(clauses[d]) /\ ~ClauseMatches(r, clauses[d], aiLoading)

\* the filter throws, and with it the render of App
FilterThrows(rowVals, searchTerms, aiLoading) ==
    \E i \in 1..Len(rowVals) : RowThrows(rowVals[i], searchTerms, aiLoading)

RECURSIVE SelectSeq2(_, _, _, _)
SelectSeq2(rowVals, searchTerms, aiLoading, i) ==
    IF i > Len(rowVals) THEN <<>>
    ELSE (IF RowMatches(rowVals[i], searchTerms, aiLoading) THEN <<i>> ELSE <<>>)
         \o SelectSeq2(rowVals, searchTerms, aiLoading, i + 1)
\* filteredRows, as the positions in rows of the rows that match
filteredRows(rowVals, searchTerms, aiLoading) == SelectSeq2(rowVals, searchTerms, aiLoading, 1)

(***************************************************************************)
(* Query run: a query is typed into the search box and the table is        *)
(* rendered through filteredRows                                           *)
(***************************************************************************)
QKA == <<"'", "a", "'">>
QKB0 == <<"'", "b", "'", ".", "0">>
QKK == <<"'", "k", "'">>
QKN == <<"'", "n", "'">>

\* an untranslated row, a translated row with a suggestion, an edited row, an empty row
QryRows ==
    << Row(QKA, <<"x">>, <<"x">>, <<"x">>, <<>>),
       Row(QKB0, <<"a", "b">>, <<"t">>, <<"t">>, <<"s">>),
       Row(QKK, <<"y">>, <<"a">>, <<"t">>, <<>>),
       Row(QKN, <<"b">>, <<>>, <<>>, <<>>) >>

RECURSIVE SubTables(_)
\* the tables made of some of the rows, in their order
SubTables(rs) ==
    IF rs = <<>> THEN {<<>>}
    ELSE LET rest == SubTables(Tail(rs))
         IN  rest \cup {<<rs[1]>> \o t : t \in rest}
QryTables == SubTables(QryRows)

\* the clauses typed between "||"
QryClauses ==
    { <<>>, <<"a">>, <<"b">>,
      <<"a">> \o TagKey,
      TagAiFetching, TagAi, TagDone,
      <<"(">> \o TagReg,
      <<".">> \o TagReg \o TagKey,
      <<"k", "|", "n">> \o TagReg }

RECURSIVE JoinClauses(_)
\* the query text: the clauses separated by "||"
JoinClauses(cs) ==
    IF Len(cs) = 1 THEN cs[1]
    ELSE cs[1] \o <<"|", "|">> \o JoinClauses(Tail(cs))

\* what the render shows: the matching rows, or nothing when the filter threw
Shown(table, searchTerms, aiLoading) ==
    IF FilterThrows(table, searchTerms, aiLoading)
    THEN [threw |-> TRUE, shown |-> <<>>]
    ELSE [threw |-> FALSE, shown |-> filteredRows(table, searchTerms, aiLoading)]

QryInit ==
    /\ qry \in {[phase |-> "ready", table |-> t, aiLoading |-> l, clauses |-> <<>>,
                 out |-> Shown(t, <<>>, l)] :
                  t \in QryTables, l \in SUBSET {QKA, QKB0}}
    /\ cdc = CodecIdle
    /\ rec = RecIdle
    /\ prj = PrjIdle
    /\ AppInit

\* the search box onChange: setSearchTerms(e.target.value), then the render
QrySearch ==
    /\ qry.phase = "ready"
    /\ \E cs \in {<<a>> : a \in QryClauses} \cup {<<a, b>> : a, b \in QryClauses} :
          qry' = [qry EXCEPT !.phase = "shown", !.clauses = cs,
                             !.out = Shown(qry.table, JoinClauses(cs), qry.aiLoading)]
    /\ UNCHANGED <<cdc, rec, prj, appVars>>

\* the search box is cleared; nothing can be typed once the render has thrown
QryClear ==
    /\ qry.phase = "shown"
    /\ ~qry.out.threw
    /\ qry' = [qry EXCEPT !.phase = "ready", !.clauses = <<>>,
                          !.out = Shown(qry.table, <<>>, qry.aiLoading)]
    /\ UNCHANGED <<cdc, rec, prj, appVars>>

QryNext == QrySearch \/ QryClear

SpecQuery == QryInit /\ [][QryNext]_vars

\* the positions of a sequence of positions, as a set
PosSet(shown) == {shown[i] : i \in 1..Len(shown)}

\* the rows of the table that the one-clause query c matches (none when it throws)
MatchedBy(c) == PosSet(Shown(qry.table, c, qry.aiLoading).shown)

\* C11: the rows matched by the query "A||B" are exactly the union of the rows
\* matched by "A" and the rows matched by "B".
C11_OrIsUnion ==
    (qry.phase = "shown" /\ Len(qry.clauses) = 2) =>
        /\ ~qry.out.threw
        /\ PosSet(qry.out.shown) = MatchedBy(qry.clauses[1]) \cup MatchedBy(qry.clauses[2])

\* the text of clause c is found in the key of row r
KeyHasText(r, c) ==
    IF Includes(c, TagReg) THEN RegExpTest(QueryWithoutTag(c), ToLowerCase(r.key))
    ELSE Includes(ToLowerCase(r.key), QueryWithoutTag(c))

\* C12: a clause with #key applies its text predicate to the key only: every row
\* the one-clause query shows has the text in its key, whatever its sourceValue and
\* targetValue hold.
C12_KeyOnly ==
    (qry.phase = "shown" /\ Len(qry.clauses) = 1 /\ Includes(qry.clauses[1], TagKey)) =>
        \A i \in PosSet(qry.out.shown) : KeyHasText(qry.table[i], qry.clauses[1])

\* the query a#key over a table with a row that has "a" in its targetValue and not
\* in its key: that row is left out, a row with "a" in its key is shown
C12_Witness ==
    /\ qry.phase = "shown"
    /\ qry.clauses = << <<"a">> \o TagKey >>
    /\ qry.out.shown # <<>>
    /\ \E i \in 1..Len(qry.table) :
          /\ qry.table[i].key = QKK
          /\ i \notin PosSet(qry.out.shown)

\* the clauses of the query whose #reg pattern is not a regular expression
InvalidClauses == {c \in 1..Len(qry.clauses) : ClauseThrows(qry.clauses[c])}

\* C13: a clause with an invalid #reg pattern matches no row and raises nothing:
\* the query shows the union of what its other clauses match.
C13_InvalidPatternFailsClosed ==
    (qry.phase = "shown" /\ InvalidClauses # {}) =>
        /\ ~qry.out.threw
        /\ PosSet(qry.out.shown) =
              UNION {MatchedBy(qry.clauses[c]) :
                        c \in (1..Len(qry.clauses)) \ InvalidClauses}

\* C14: the query #aifetching shows exactly the rows marked in-flight, whatever
\* their aiSuggestion is.
C14_AiFetchingOnly ==
    (qry.phase = "shown" /\ qry.clauses = <<TagAiFetching>>) =>
        PosSet(qry.out.shown) =
            {i \in 1..Len(qry.table) : qry.table[i].key \in qry.aiLoading}

\* the row is matched by the one-clause query made of the tag
MatchesTag(r, tag) == ClauseMatches(r, tag, {})

\* the fetched target's leaf at the row's key is a string other than the source string
TranslatedRemotely(r) ==
    LET leaf == Lookup(flattenObject(rec.tgt), r.key)
    IN  leaf.t = "str" /\ leaf.s # r.sourceValue

\* C16: a row of a first fetch whose target translation differs from the source
\* matches #done and not #modified; a row whose targetValue differs from its
\* originalTargetValue matches #modified and not #done; no row matches both.
C16_DoneThenModified ==
    \A i \in 1..Len(rec.tbl) :
        LET r == rec.tbl[i]
        IN  /\ ~(MatchesTag(r, TagDone) /\ MatchesTag(r, TagModified))
            /\ r.targetValue # r.originalTargetValue
                  => (MatchesTag(r, TagModified) /\ ~MatchesTag(r, TagDone))
            /\ (rec.phase = "fetched" /\ rec.prev = <<>> /\ TranslatedRemotely(r))
                  => (MatchesTag(r, TagDone) /\ ~MatchesTag(r, TagModified))

(***************************************************************************)
(* The editor.  A handler reads the state of the render it was created in: *)
(* an async handler keeps the rows array, the row objects and the          *)
(* rowAiLoading record it captured when it started, across its awaits.     *)
(* Row objects are shared between the state and the captured arrays; a     *)
(* write to row.aiSuggestion is a write to the shared object.              *)
(***************************************************************************)
MaxTasks == 1

AppSourceDocs ==
    { ObjV(<<Member(KA, StrV(<<"x">>)), Member(KB, StrV(<<"y">>))>>) }
AppTargetDocs ==
    { ObjV(<<Member(KA, StrV(<<"t">>)), Member(KN, NumV(<<"5">>))>>) }
AppEditValues == { <<"s">> }
\* what is typed into the search box
AppQueries == { <<>>, TagModified }
\* settings.suggestionChunkSize
ChunkSizes == {1, 2}

Cur == [heap |-> heap, rows |-> rows, otd |-> originalTargetData,
        aiLoading |-> rowAiLoading, loading |-> loading, tasks |-> tasks, io |-> io]

Deref(h, ids) == [i \in 1..Len(ids) |-> h[ids[i]]]

RECURSIVE TaskRefs(_, _)
TaskRefs(ts, i) == IF i > Len(ts) THEN <<>> ELSE ts[i].capRows \o TaskRefs(ts, i + 1)

RECURSIVE Distinct(_, _)
Distinct(ids, seen) ==
    IF ids = <<>> THEN <<>>
    ELSE IF ids[1] \in seen THEN Distinct(Tail(ids), seen)
         ELSE <<ids[1]>> \o Distinct(Tail(ids), seen \cup {ids[1]})

\* Object identities carry no meaning of their own: the objects still referenced
\* are renumbered in the order the state refers to them, the others are dropped.
Canon(st) ==
    LET order == Distinct(st.rows \o st.io.capRows \o TaskRefs(st.tasks, 1), {})
        pos(id) == CHOOSE i \in 1..Len(order) : order[i] = id
        ren(ids) == [i \in 1..Len(ids) |-> pos(ids[i])]
    IN  [st EXCEPT !.heap = [i \in 1..Len(order) |-> st.heap[order[i]]],
                   !.rows = ren(st.rows),
                   !.io = [st.io EXCEPT !.capRows = ren(st.io.capRows)],
                   !.tasks = [t \in 1..Len(st.tasks) |->
                                [st.tasks[t] EXCEPT !.capRows = ren(st.tasks[t].capRows)]]]

Install(st) ==
    LET c == Canon(st)
    IN  /\ heap' = c.heap
        /\ rows' = c.rows
        /\ originalTargetData' = c.otd
        /\ rowAiLoading' = c.aiLoading
        /\ loading' = c.loading
        /\ tasks' = c.tasks
        /\ io' = c.io
        /\ UNCHANGED <<cdc, rec, qry, prj>>

\* [...heap, ...objs] and the identities of the new objects
NewIds(h, n) == [i \in 1..n |-> Len(h) + i]

RemoveAt(seq, i) == SubSeq(seq, 1, i - 1) \o SubSeq(seq, i + 1, Len(seq))

\* the map with the field written on every row
MapRow_AllRows(st, key, field, value) ==
    LET fresh == [i \in 1..Len(st.rows) |-> [st.heap[st.rows[i]] EXCEPT ![field] = value]]
    IN  [st EXCEPT !.heap = st.heap \o fresh,
                   !.rows = [i \in 1..Len(st.rows) |-> Len(st.heap) + i]]

\* updateActiveProject({ rows: activeProject.rows.map(r =>
\*     r.key === key ? { ...r, [field]: value } : r) })
MapRow(st, key, field, value) ==
    LET hit == {i \in 1..Len(st.rows) : st.heap[st.rows[i]].key = key}
        fresh == [i \in 1..Len(st.rows) |-> [st.heap[st.rows[i]] EXCEPT ![field] = value]]
    IN  [st EXCEPT !.heap = st.heap \o fresh,
                   !.rows = [i \in 1..Len(st.rows) |->
                               IF i \in hit THEN Len(st.heap) + i ELSE st.rows[i]]]

---------------------------------------------------------------------------
\* handleFetchFiles up to its await
FetchStart ==
    /\ ~loading
    /\ Install([Cur EXCEPT !.loading = TRUE,
                           !.io = [op |-> "fetch", capRows |-> rows, content |-> Undefined]])

\* handleFetchFiles after loadFiles() resolved with one of sources and one of
\* targets: the rows are reconciled with activeProject.rows of the render in which
\* the fetch was started
FetchEnd(sources, targets) ==
    /\ io.op = "fetch"
    /\ \E source \in sources, target \in targets :
          LET newRows == Reconcile(Deref(heap, io.capRows), source, target)
          IN  Install([Cur EXCEPT !.heap = heap \o newRows,
                                  !.rows = NewIds(heap, Len(newRows)),
                                  !.otd = target,
                                  !.loading = FALSE,
                                  !.io = IoNone])

FetchDone == FetchEnd(AppSourceDocs, AppTargetDocs)

\* handleFetchFiles when loadFiles() rejected
FetchFail ==
    /\ io.op = "fetch"
    /\ Install([Cur EXCEPT !.loading = FALSE, !.io = IoNone])

\* textarea onChange
EditTarget ==
    /\ ~loading
    /\ \E i \in 1..Len(rows), v \in AppEditValues :
          Install(MapRow(Cur, heap[rows[i]].key, "targetValue", v))

\* textarea onKeyDown Tab (and onChange with "\t"): back to the baseline
RevertRow ==
    /\ ~loading
    /\ \E i \in 1..Len(rows) :
          Install(MapRow(Cur, heap[rows[i]].key, "targetValue",
                         heap[rows[i]].originalTargetValue))

\* handleRevertProject
RevertProject ==
    /\ ~loading
    /\ LET fresh == [i \in 1..Len(rows) |->
                       [heap[rows[i]] EXCEPT !.targetValue = heap[rows[i]].originalTargetValue]]
       IN  Install([Cur EXCEPT !.heap = heap \o fresh, !.rows = NewIds(heap, Len(rows))])

\* the buttons under a suggestion are rendered when row.aiSuggestion && !rowAiLoading[row.key]
SuggestionShown(i) ==
    heap[rows[i]].aiSuggestion # <<>> /\ heap[rows[i]].key \notin rowAiLoading

\* discard button
DiscardSuggestion ==
    /\ ~loading
    /\ \E i \in 1..Len(rows) :
          /\ SuggestionShown(i)
          /\ Install(MapRow(Cur, heap[rows[i]].key, "aiSuggestion", <<>>))

\* commit button: targetValue: row.aiSuggestion || r.targetValue
CommitSuggestion ==
    /\ ~loading
    /\ \E i \in 1..Len(rows) :
          /\ SuggestionShown(i)
          /\ Install(MapRow(Cur, heap[rows[i]].key, "targetValue",
                            heap[rows[i]].aiSuggestion))

---------------------------------------------------------------------------
\* What getTranslationSuggestions resolves to: a mapping from some keys to a
\* suggestion.  The empty mapping is also what it returns when the request or the
\* parse of the answer failed (both are caught there).
Responses(keys) == {[keys |-> K, value |-> v] : K \in SUBSET keys, v \in SuggestionValues}

KeysOf(h, ids) == {h[ids[i]].key : i \in 1..Len(ids)}

\* newRows.findIndex(r => r.key === key), 0 for -1
FindIndex(h, ids, key) ==
    IF \E i \in 1..Len(ids) : h[ids[i]].key = key
    THEN CHOOSE i \in 1..Len(ids) :
            h[ids[i]].key = key /\ \A j \in 1..(i - 1) : h[ids[j]].key # key
    ELSE 0

\* Object.keys(suggestions).forEach(key => { ... newRows[rowIndex].aiSuggestion = ... }):
\* the row objects of the captured array are written in place
MergeSuggestions(h, ids, resp) ==
    LET written == {ids[FindIndex(h, ids, key)] :
                      key \in {k \in resp.keys : FindIndex(h, ids, k) # 0}}
    IN  [o \in 1..Len(h) |->
            IF o \in written THEN [h[o] EXCEPT !.aiSuggestion = resp.value] ELSE h[o]]

RECURSIVE CandidatesFrom_KeepLoading(_, _, _, _)
\* the candidates with the rows in flight not left out
CandidatesFrom_KeepLoading(rowVals, shown, replace, i) ==
    IF i > Len(shown) THEN <<>>
    ELSE LET r == rowVals[shown[i]]
         IN  (IF replace \/ r.aiSuggestion = <<>>
              THEN <<[key |-> r.key, value |-> r.sourceValue]>>
              ELSE <<>>)
             \o CandidatesFrom_KeepLoading(rowVals, shown, replace, i + 1)

RECURSIVE CandidatesFrom(_, _, _, _)
\* [...filteredRows].filter(r => (replace || !r.aiSuggestion) && !rowAiLoading[r.key])
CandidatesFrom(rowVals, shown, replace, i) ==
    IF i > Len(shown) THEN <<>>
    ELSE LET r == rowVals[shown[i]]
         IN  (IF (replace \/ r.aiSuggestion = <<>>) /\ r.key \notin rowAiLoading
              THEN <<[key |-> r.key, value |-> r.sourceValue]>>
              ELSE <<>>)
             \o CandidatesFrom(rowVals, shown, replace, i + 1)

ItemKeys(items) == {items[i].key : i \in 1..Len(items)}

\* updatedRows.slice(i, i + chunkSize + 1)
Chunk_OneMore(task) ==
    SubSeq(task.items, task.i + 1,
           IF task.i + task.chunkSize + 1 < Len(task.items)
           THEN task.i + task.chunkSize + 1
           ELSE Len(task.items))

\* updatedRows.slice(i, i + chunkSize)
Chunk(task) ==
    SubSeq(task.items, task.i + 1,
           IF task.i + task.chunkSize < Len(task.items) THEN task.i + task.chunkSize
           ELSE Len(task.items))

\* the loop goes on after the chunk at i: i + chunkSize < updatedRows.length
MoreChunks(task) == task.i + task.chunkSize < Len(task.items)

\* the aiSuggestion of the rows with the given keys
Suggestions(rowVals, keys) ==
    {[key |-> rowVals[i].key, value |-> rowVals[i].aiSuggestion] :
        i \in {j \in 1..Len(rowVals) : rowVals[j].key \in keys}}

\* handleSuggestAll up to its first await, with at most maxTasks handlers suspended
\* the chunk size set to one of chunkSizes and the search box holding one of
\* queries.  The handler keeps the search text
\* and the replace flag of its render, and has issued its first request.  With
\* audit the task also keeps its history: the suggestions its candidates had
\* (before), what it was answered (answers), whether a request was rejected.
SuggestAllBegin(maxTasks, chunkSizes, queries, audit) ==
    /\ ~loading
    /\ rows # <<>>
    /\ Len(tasks) < maxTasks
    /\ \E searchTerms \in queries, chunkSize \in chunkSizes, replace \in BOOLEAN :
          LET rowVals == Deref(heap, rows)
              updatedRows == CandidatesFrom(rowVals,
                                 filteredRows(rowVals, searchTerms, rowAiLoading), replace, 1)
              newRowLoading == rowAiLoading \cup ItemKeys(updatedRows)
          IN  /\ updatedRows # <<>>
              /\ Install([Cur EXCEPT
                    !.aiLoading = newRowLoading,
                    !.tasks = Append(tasks,
                        [kind |-> "all", capRows |-> rows, items |-> updatedRows,
                         capLoading |-> rowAiLoading, newRowLoading |-> newRowLoading,
                         i |-> 0, chunkSize |-> chunkSize,
                         searchTerms |-> searchTerms, replace |-> replace,
                         requests |-> 1, audit |-> audit,
                         before |-> IF audit THEN Suggestions(rowVals, ItemKeys(updatedRows))
                                    ELSE {},
                         answers |-> {}, rejected |-> FALSE])])

SuggestAllStart == SuggestAllBegin(MaxTasks, ChunkSizes, AppQueries, FALSE)

\* what the run has been answered so far for its candidates, the latest answer for
\* a key replacing an earlier one
Answered(task, resp) ==
    IF task.audit
    THEN {a \in task.answers : a.key \notin resp.keys}
            \cup {[key |-> k, value |-> resp.value] :
                     k \in resp.keys \cap ItemKeys(task.items)}
    ELSE {}

\* handleSuggestAll when the request of a chunk resolved: the chunk is merged, and
\* either the next chunk is requested or the run ends.  A request that was rejected,
\* or whose answer did not parse, resolves to {} (getTranslationSuggestions catches
\* both); the task keeps what it was answered and whether a request was rejected.
SuggestAllReturn ==
    \E t \in 1..Len(tasks) :
        /\ tasks[t].kind = "all"
        /\ \E resp \in Responses(KeysOf(heap, tasks[t].capRows)), rejected \in BOOLEAN :
              LET task == tasks[t]
                  newRowLoading == task.newRowLoading \ ItemKeys(Chunk(task))
                  merged == MergeSuggestions(heap, task.capRows, resp)
              IN  /\ rejected => resp.keys = {}
                  /\ IF MoreChunks(task)
                     THEN Install([Cur EXCEPT
                             !.heap = merged,
                             !.tasks[t] = [task EXCEPT !.newRowLoading = newRowLoading,
                                                       !.i = task.i + task.chunkSize,
                                                       !.requests = task.requests + 1,
                                                       !.answers = Answered(task, resp),
                                                       !.rejected = task.rejected
                                                                      \/ (task.audit /\ rejected)]])
                     ELSE Install([Cur EXCEPT
                             !.heap = merged,
                             !.aiLoading = newRowLoading,
                             !.rows = task.capRows,
                             !.tasks = RemoveAt(tasks, t)])

\* handleSuggestAll when something in the try block threw (getTranslationSuggestions
\* rejects before its own try, or Object.keys meets a null answer): catch, alert
SuggestAllThrow ==
    \E t \in 1..Len(tasks) :
        /\ tasks[t].kind = "all"
        /\ Install([Cur EXCEPT !.tasks = RemoveAt(tasks, t)])

\* the per-row suggest button is rendered when the row has no shown suggestion and
\* is not loading
SuggestOneBegin(maxTasks) ==
    /\ ~loading
    /\ Len(tasks) < maxTasks
    /\ \E i \in 1..Len(rows) :
          LET row == heap[rows[i]]
          IN  /\ ~SuggestionShown(i)
              /\ row.key \notin rowAiLoading
              /\ Install([Cur EXCEPT
                    !.aiLoading = rowAiLoading \cup {row.key},
                    !.tasks = Append(tasks,
                        [kind |-> "one", capRows |-> rows,
                         items |-> <<[key |-> row.key, value |-> row.sourceValue]>>,
                         capLoading |-> rowAiLoading, newRowLoading |-> {},
                         i |-> 0, chunkSize |-> 1,
                         searchTerms |-> <<>>, replace |-> FALSE,
                         requests |-> 1, audit |-> FALSE, before |-> {},
                         answers |-> {}, rejected |-> FALSE])])

SuggestOneStart == SuggestOneBegin(MaxTasks)

\* the per-row handler when its request resolved
SuggestOneReturn ==
    \E t \in 1..Len(tasks) :
        /\ tasks[t].kind = "one"
        /\ \E resp \in Responses(KeysOf(heap, tasks[t].capRows)) :
              LET task == tasks[t]
              IN  Install([Cur EXCEPT
                      !.heap = MergeSuggestions(heap, task.capRows, resp),
                      !.aiLoading = task.capLoading \ ItemKeys(task.items),
                      !.rows = task.capRows,
                      !.tasks = RemoveAt(tasks, t)])

\* the per-row handler when something in its try block threw: catch, alert.  The
\* request rejected (getTranslationSuggestions threw before its own try) and the mark
\* set at the start stays, or the answer was null and Object.keys threw after
\* setRowAiLoading({ ...rowAiLoading, [row.key]: false }) had run (cleared).
SuggestOneThrow ==
    \E t \in 1..Len(tasks), cleared \in BOOLEAN :
        /\ tasks[t].kind = "one"
        /\ Install([Cur EXCEPT
              !.aiLoading = IF cleared THEN tasks[t].capLoading \ ItemKeys(tasks[t].items)
                            ELSE rowAiLoading,
              !.tasks = RemoveAt(tasks, t)])

---------------------------------------------------------------------------
RECURSIVE FlatDataFrom(_, _)
\* activeProject.rows.forEach(r => { flatData[r.key] = r.targetValue; })
FlatDataFrom(rowVals, i) ==
    IF i = 0 THEN <<>>
    ELSE Put(FlatDataFrom(rowVals, i - 1), rowVals[i].key, StrV(rowVals[i].targetValue))
FlatData(rowVals) == FlatDataFrom(rowVals, Len(rowVals))

\* JSON.stringify(unflattenObject(flatData), null, 4): the document that is serialized
TargetJson(rowVals) == unflattenObject(FlatData(rowVals), ObjV(<<>>))

modifiedCount == Cardinality({i \in 1..Len(rows) : Modified(heap[rows[i]])})

\* handlePushToGitHub up to its await: the content is built, then pushFile is called
PushStart ==
    /\ ~loading
    /\ modifiedCount # 0
    /\ TargetJson(Deref(heap, rows)) # TypeError
    /\ Install([Cur EXCEPT !.loading = TRUE,
                           !.io = [op |-> "push", capRows |-> rows,
                                   content |-> TargetJson(Deref(heap, rows))]])

\* handlePushToGitHub after pushFile resolved
PushDone ==
    /\ io.op = "push"
    /\ LET fresh == [i \in 1..Len(io.capRows) |->
                       [heap[io.capRows[i]] EXCEPT
                          !.originalTargetValue = heap[io.capRows[i]].targetValue]]
       IN  Install([Cur EXCEPT !.heap = heap \o fresh,
                               !.rows = NewIds(heap, Len(fresh)),
                               !.loading = FALSE,
                               !.io = IoNone])

\* handlePushToGitHub when pushFile rejected
PushFail ==
    /\ io.op = "push"
    /\ Install([Cur EXCEPT !.loading = FALSE, !.io = IoNone])

Init ==
    /\ AppInit
    /\ cdc = CodecIdle
    /\ rec = RecIdle
    /\ qry = QryIdle
    /\ prj = PrjIdle

Next ==
    \/ FetchStart \/ FetchDone \/ FetchFail
    \/ EditTarget \/ RevertRow \/ RevertProject
    \/ DiscardSuggestion \/ CommitSuggestion
    \/ SuggestAllStart \/ SuggestAllReturn \/ SuggestAllThrow
    \/ SuggestOneStart \/ SuggestOneReturn \/ SuggestOneThrow
    \/ PushStart \/ PushDone \/ PushFail

Spec == Init /\ [][Next]_vars

---------------------------------------------------------------------------
\* the suspended handlers without the rows they captured
Pending(ts) == [j \in 1..Len(ts) |-> [ts[j] EXCEPT !.capRows = <<>>]]

\* the bulk runs that end in this step: their handler returned or reached its catch
EndedRuns ==
    {t \in 1..Len(tasks) :
        tasks[t].kind = "all" /\ Pending(tasks') = Pending(RemoveAt(tasks, t))}

\* C1: when a SuggestAll run ends, by completing or by a failure, none of the row
\* keys the run marked is still marked in-flight in rowAiLoading.
C1_NoKeyLeftMarked ==
    [][\A t \in EndedRuns : ItemKeys(tasks[t].items) \cap rowAiLoading' = {}]_vars

\* the key and targetValue of every row of the table, in order
TargetValues(h, ids) ==
    [i \in 1..Len(ids) |-> [key |-> h[ids[i]].key, targetValue |-> h[ids[i]].targetValue]]

\* a step in which a suggestion request's answer is taken in: the request's handler
\* ends, or a bulk run moves on to its next chunk
SuggestionStep ==
    \/ Len(tasks') < Len(tasks)
    \/ /\ Len(tasks') = Len(tasks)
       /\ \E t \in 1..Len(tasks) : tasks'[t].i # tasks[t].i

\* C2: SuggestAll and SuggestOne never change a row's targetValue: the step that
\* merges a request's results leaves every row's targetValue as it was, whatever the
\* user edited while the request was outstanding.
C2_TargetValueUntouched ==
    [][SuggestionStep => TargetValues(heap', rows') = TargetValues(heap, rows)]_vars

\* C10: the document serialized for push is the unflatten of the rows' key to
\* targetValue mapping over originalTargetData as base, so the leaves of the remote
\* target that are not rows are still in it.
C10_PushOverBase ==
    io.op = "push" =>
        StructEq(io.content,
                 unflattenObject(FlatData(Deref(heap, io.capRows)), originalTargetData))

(***************************************************************************)
(* Suggestion runs over a fetched table of several rows, where handlers    *)
(* run side by side                                                        *)
(***************************************************************************)
MaxBatchTasks == 2

BatchSource ==
    ObjV(<<Member(<<"a">>, StrV(<<"x">>)), Member(<<"b">>, StrV(<<"y">>)),
           Member(<<"c">>, StrV(<<"x">>))>>)
BatchTarget == ObjV(<<>>)
BatchChunkSizes == {1, 2}
BatchQueries == { <<>>, TagAi }

\* the editor after the project's first fetch of source, the target file being {}
FetchedInit(source) ==
    /\ heap = Reconcile(<<>>, source, BatchTarget)
    /\ rows = [i \in 1..Len(heap) |-> i]
    /\ originalTargetData = BatchTarget
    /\ rowAiLoading = {}
    /\ loading = FALSE
    /\ tasks = <<>>
    /\ io = IoNone
    /\ cdc = CodecIdle
    /\ rec = RecIdle
    /\ qry = QryIdle
    /\ prj = PrjIdle

BatchInit == FetchedInit(BatchSource)

BatchSuggestAllStart == SuggestAllBegin(MaxBatchTasks, BatchChunkSizes, BatchQueries, FALSE)
BatchSuggestOneStart == SuggestOneBegin(MaxBatchTasks)

BatchNext ==
    \/ BatchSuggestAllStart \/ SuggestAllReturn \/ SuggestAllThrow
    \/ BatchSuggestOneStart \/ SuggestOneReturn \/ SuggestOneThrow

SpecBatch == BatchInit /\ [][BatchNext]_vars

(***************************************************************************)
(* One bulk run at a time over a table of five rows                        *)
(***************************************************************************)
ChunkSource ==
    ObjV(<<Member(<<"a">>, StrV(<<"x">>)), Member(<<"b">>, StrV(<<"y">>)),
           Member(<<"c">>, StrV(<<"x">>)), Member(<<"d">>, StrV(<<"y">>)),
           Member(<<"e">>, StrV(<<"x">>))>>)
ChunkChunkSizes == {1, 2, 3}

ChunkInit == FetchedInit(ChunkSource)

ChunkSuggestAllStart == SuggestAllBegin(MaxTasks, ChunkChunkSizes, BatchQueries, FALSE)

ChunkNext == ChunkSuggestAllStart \/ SuggestAllReturn \/ SuggestAllThrow

SpecChunks == ChunkInit /\ [][ChunkNext]_vars

\* the bulk run started in this step, if one was
StartedRuns ==
    {t \in 1..Len(tasks') : t = Len(tasks) + 1 /\ tasks'[t].kind = "all"}

\* C17: the candidates of a SuggestAll run are exactly the rows of the filtered
\* subset that are not marked in-flight and, unless replaceExisting is set, have no
\* aiSuggestion, in table order, each sent with its key and source string.
C17_Candidates ==
    [][\A t \in StartedRuns :
          LET run == tasks'[t]
              rowVals == Deref(heap, rows)
              shown == PosSet(filteredRows(rowVals, run.searchTerms, rowAiLoading))
              wanted == {i \in shown :
                            /\ rowVals[i].key \notin rowAiLoading
                            /\ run.replace \/ rowVals[i].aiSuggestion = <<>>}
          IN  /\ ItemKeys(run.items) = {rowVals[i].key : i \in wanted}
              /\ Len(run.items) = Cardinality(wanted)
              /\ \A j \in 1..Len(run.items) :
                    \E i \in wanted :
                        /\ run.items[j].key = rowVals[i].key
                        /\ run.items[j].value = rowVals[i].sourceValue
     ]_vars

\* a bulk run without replaceExisting that started while another row was in flight
\* and some row already had a suggestion: it carries neither
C17_Witness ==
    \E t \in 1..Len(tasks) :
        /\ tasks[t].kind = "all"
        /\ ~tasks[t].replace
        /\ tasks[t].requests = 1
        /\ tasks[t].capLoading # {}
        /\ \E i \in 1..Len(rows) :
              /\ heap[rows[i]].aiSuggestion # <<>>
              /\ heap[rows[i]].key \notin ItemKeys(tasks[t].items)
              /\ heap[rows[i]].key \notin tasks[t].capLoading

CeilDiv(n, c) == (n + c - 1) \div c
Min(a, b) == IF a < b THEN a ELSE b

\* the k-th request of the run carries candidates (k-1)c+1 .. min(kc, n)
RequestInOrder(run) ==
    LET n == Len(run.items)
        c == run.chunkSize
        k == run.requests
    IN  /\ k \in 1..CeilDiv(n, c)
        /\ Chunk(run) = SubSeq(run.items, (k - 1) * c + 1, Min(k * c, n))
        /\ Len(Chunk(run)) \in 1..c

\* C18: a SuggestAll run over n candidates with chunk size c issues its requests
\* one at a time, the k-th carrying candidates (k-1)c+1 .. min(kc, n); a run that
\* merges its results has issued ceil(n/c) requests (a run that ends after fewer
\* ended by a failure and merged nothing into the in-flight flags).
C18_SequentialChunks ==
    /\ [](\A t \in 1..Len(tasks) : tasks[t].kind = "all" => RequestInOrder(tasks[t]))
    /\ [][\A t \in EndedRuns :
            tasks[t].requests < CeilDiv(Len(tasks[t].items), tasks[t].chunkSize)
                => rowAiLoading' = rowAiLoading]_vars

\* five candidates in chunks of two: the third request carries the last candidate
C18_Witness ==
    \E t \in 1..Len(tasks) :
        /\ tasks[t].kind = "all"
        /\ Len(tasks[t].items) = 5
        /\ tasks[t].chunkSize = 2
        /\ tasks[t].requests = 3
        /\ Len(Chunk(tasks[t])) = 1

\* C19: every candidate of a run is marked in-flight before its first request, and
\* until chunk k returns the flags show the candidates of chunks k and later as
\* loading.
C19_MarkedUntilReturned ==
    \A t \in 1..Len(tasks) :
        tasks[t].kind = "all" =>
            ItemKeys(SubSeq(tasks[t].items, tasks[t].i + 1, Len(tasks[t].items)))
                \subseteq rowAiLoading

\* C20: the keys of a chunk are cleared from the in-flight flags when the chunk's
\* response is merged, before the next request is issued; the keys of later chunks
\* stay marked.
C20_ClearedPerChunk ==
    [][\A t \in 1..Len(tasks) :
          (/\ tasks[t].kind = "all"
           /\ Len(tasks') = Len(tasks)
           /\ tasks'[t].requests = tasks[t].requests + 1)
              => /\ ItemKeys(Chunk(tasks[t])) \cap rowAiLoading' = {}
                 /\ ItemKeys(SubSeq(tasks[t].items, tasks'[t].i + 1, Len(tasks[t].items)))
                        \subseteq rowAiLoading'
     ]_vars

\* C15: the modified count is the number of rows whose targetValue differs from
\* their originalTargetValue, and that is the number of rows the query #modified
\* shows.
C15_ModifiedCount ==
    /\ modifiedCount =
          Cardinality({i \in 1..Len(rows) :
                          heap[rows[i]].targetValue # heap[rows[i]].originalTargetValue})
    /\ modifiedCount = Len(filteredRows(Deref(heap, rows), TagModified, rowAiLoading))

\* some rows are modified and some are not, after an edit and a suggestion
C15_Witness ==
    /\ modifiedCount >= 1
    /\ modifiedCount < Len(rows)
    /\ \E i \in 1..Len(rows) : heap[rows[i]].aiSuggestion # <<>>

(***************************************************************************)
(* Runs that keep their history, over two rows: bulk runs and per-row      *)
(* requests side by side; one bulk run at a time with edits in between     *)
(***************************************************************************)
MaxAuditTasks == 2
AuditSource ==
    ObjV(<<Member(<<"a">>, StrV(<<"x">>)), Member(<<"b">>, StrV(<<"y">>))>>)
AuditChunkSizes == {1, 2}
AuditQueries == { <<>> }

AuditInit == FetchedInit(AuditSource)

AuditSuggestAllStart ==
    SuggestAllBegin(MaxAuditTasks, AuditChunkSizes, AuditQueries, TRUE)
AuditSuggestOneStart == SuggestOneBegin(MaxAuditTasks)

AuditNext ==
    \/ AuditSuggestAllStart \/ SuggestAllReturn \/ SuggestAllThrow
    \/ AuditSuggestOneStart \/ SuggestOneReturn \/ SuggestOneThrow

SpecAudit == AuditInit /\ [][AuditNext]_vars

AuditEditSuggestAllStart ==
    SuggestAllBegin(MaxTasks, AuditChunkSizes, AuditQueries, TRUE)

AuditEditNext ==
    \/ AuditEditSuggestAllStart \/ SuggestAllReturn \/ SuggestAllThrow
    \/ EditTarget \/ RevertRow

SpecAuditEdit == AuditInit /\ [][AuditEditNext]_vars

\* this step is the normal end of run t, its last request answered with resp
CompletedWith(t, resp) ==
    /\ t \in EndedRuns
    /\ ~MoreChunks(tasks[t])
    /\ Deref(heap', rows')
          = Deref(MergeSuggestions(heap, tasks[t].capRows, resp), tasks[t].capRows)
    /\ rowAiLoading' = tasks[t].newRowLoading \ ItemKeys(Chunk(tasks[t]))

\* the row table after the step holds, for the key of entry a, the value of a
HoldsAfter(a) ==
    \E i \in 1..Len(rows') :
        heap'[rows'[i]].key = a.key /\ heap'[rows'[i]].aiSuggestion = a.value

\* C21: after a SuggestAll run completes normally, every candidate the provider
\* answered has the returned string as aiSuggestion, and every candidate the
\* provider omitted has the aiSuggestion it had before the run.
C21_AnsweredOrKept ==
    [][\A t \in 1..Len(tasks) :
          \A resp \in Responses(KeysOf(heap, tasks[t].capRows)) :
              (tasks[t].audit /\ CompletedWith(t, resp)) =>
                  LET answers == Answered(tasks[t], resp)
                  IN  /\ \A a \in answers : HoldsAfter(a)
                      /\ \A b \in tasks[t].before :
                            (\A a \in answers : a.key # b.key) => HoldsAfter(b)
     ]_vars

\* C22: a SuggestAll run of which a provider call failed issues no further
\* request: no run with a rejected request has a request outstanding.
C22_NoRequestAfterFailure ==
    \A t \in 1..Len(tasks) : tasks[t].kind = "all" => ~tasks[t].rejected

\* the bulk runs that end in their catch in this step: nothing but the end of the
\* handler happens
ThrownRuns ==
    {t \in EndedRuns :
        /\ Deref(heap', rows') = Deref(heap, rows)
        /\ rowAiLoading' = rowAiLoading}

\* C23: when a SuggestAll run ends in a failure at chunk i, the row table holds
\* the suggestions merged from chunks 1..i-1.
C23_MergedRetained ==
    [][\A t \in ThrownRuns :
          tasks[t].audit => \A a \in tasks[t].answers : HoldsAfter(a)]_vars

\* the handlers, bulk or per-row, that end in this step
EndedHandlers ==
    {t \in 1..Len(tasks) : Pending(tasks') = Pending(RemoveAt(tasks, t))}

\* C24: the end of a SuggestOne or SuggestAll handler changes the in-flight flags
\* of its own rows only; the flag of every other key is left as it was.
C24_OwnFlagsOnly ==
    [][\A t \in EndedHandlers :
          \A key \in (rowAiLoading \cup rowAiLoading') \ ItemKeys(tasks[t].items) :
              key \in rowAiLoading /\ key \in rowAiLoading'
     ]_vars

(***************************************************************************)
(* A second fetch of a project that has rows a and b: the source file now  *)
(* has b and c, and a target file exists                                   *)
(***************************************************************************)
RefetchSources ==
    { ObjV(<<Member(<<"b">>, StrV(<<"y">>)), Member(<<"c">>, StrV(<<"x">>))>>) }
RefetchTargets ==
    { ObjV(<<Member(<<"b">>, StrV(<<"t">>))>>) }

RefetchDone == FetchEnd(RefetchSources, RefetchTargets)

RefetchNext ==
    \/ FetchStart \/ RefetchDone \/ FetchFail
    \/ SuggestAllStart \/ SuggestAllReturn \/ SuggestAllThrow
    \/ SuggestOneStart \/ SuggestOneReturn \/ SuggestOneThrow
    \/ EditTarget

SpecRefetch == AuditInit /\ [][RefetchNext]_vars

\* what a fetch decides of a table: its keys in order, with the source text and
\* the baseline of each
Fetched(rowVals) ==
    [i \in 1..Len(rowVals) |->
        [key |-> rowVals[i].key, sourceValue |-> rowVals[i].sourceValue,
         originalTargetValue |-> rowVals[i].originalTargetValue]]

\* the table is as the second fetch installs it
Refetched(rowVals) ==
    \E source \in RefetchSources, target \in RefetchTargets :
        Fetched(rowVals) = Fetched(Reconcile(<<>>, source, target))

\* C25: once a fetch has installed the reconciled table, the end of a SuggestAll
\* or SuggestOne handler leaves the keys, the source texts and the baselines of
\* the table as fetched.
C25_FetchedTableStays ==
    [][(EndedHandlers # {} /\ Refetched(Deref(heap, rows)))
          => Refetched(Deref(heap', rows'))]_vars

\* C26: the reconcile step of a fetch works on the rows as they are when the
\* documents arrive: the table it installs is the reconciliation of the current
\* rows with the fetched documents.
C26_ReconcilesCurrentRows ==
    [][\A source \in RefetchSources, target \in RefetchTargets :
          (/\ io.op = "fetch"
           /\ io'.op = IoNone.op
           /\ originalTargetData' = target
           /\ Deref(heap', rows') = Reconcile(Deref(heap, io.capRows), source, target))
              => Deref(heap', rows') = Reconcile(Deref(heap, rows), source, target)
     ]_vars

(***************************************************************************)
(* The project list.  Of a project only what the import looks at is kept:  *)
(* its id, and whether name, config and rows are absent, present with a    *)
(* falsy value (name: "") or present with a truthy one.  An id is absent,  *)
(* the id written in an input, or one drawn by crypto.randomUUID(), which  *)
(* never returns an id twice.                                              *)
(***************************************************************************)
MaxProjects == 3
MaxUuids == 3

NoId == [src |-> "absent", n |-> 0]
InputId == [src |-> "input", n |-> 1]
Uuid(n) == [src |-> "uuid", n |-> n]

\* !importedProject.id, !importedProject.name, ...
Falsy(field) == field \in {"absent", "falsy"}
FalsyId(id) == id = NoId

Complete(id) == [id |-> id, name |-> "ok", config |-> "ok", rows |-> "ok"]

\* what a project file or an ?import= parameter holds: a whole project under an id
\* of its own or under the id of a project of the list (an export), or a project
\* with one field missing, or with the name ""
ImportInputs ==
    { Complete(InputId), Complete(Uuid(1)), Complete(NoId),
      [Complete(InputId) EXCEPT !.name = "absent"],
      [Complete(InputId) EXCEPT !.name = "falsy"],
      [Complete(InputId) EXCEPT !.config = "absent"],
      [Complete(InputId) EXCEPT !.rows = "absent"] }

NoProject == [id |-> NoId, name |-> "absent", config |-> "absent", rows |-> "absent"]
ImportError == [id |-> NoId, name |-> "Error", config |-> "absent", rows |-> "absent"]

createEmptyProject(n) == Complete(Uuid(n))

\* importProject(content), n being the next id crypto.randomUUID() returns
importProject(content, n) ==
    IF FalsyId(content.id) \/ Falsy(content.name) \/ Falsy(content.config)
          \/ Falsy(content.rows)
    THEN ImportError
    ELSE [content EXCEPT !.id = Uuid(n)]

HasId(projects, id) == \E i \in 1..Len(projects) : projects[i].id = id

RECURSIVE WithoutId(_, _)
\* projects.filter(p => p.id !== id)
WithoutId(projects, id) ==
    IF projects = <<>> THEN <<>>
    ELSE (IF projects[1].id = id THEN <<>> ELSE <<projects[1]>>)
            \o WithoutId(Tail(projects), id)

\* the load effect of App: the saved state or a demo project, then the project of
\* the URL unless the list has its id; queue holds at most one project
Loaded(saved, queue, n, op) ==
    LET base == IF saved.projects # <<>>
                THEN [projects |-> saved.projects,
                      activeProjectId |-> IF FalsyId(saved.activeProjectId)
                                          THEN saved.projects[1].id
                                          ELSE saved.activeProjectId,
                      uuids |-> n]
                ELSE [projects |-> <<createEmptyProject(n + 1)>>,
                      activeProjectId |-> Uuid(n + 1),
                      uuids |-> n + 1]
    IN  IF queue = <<>>
        THEN [phase |-> "run", projects |-> base.projects,
              activeProjectId |-> base.activeProjectId, uuids |-> base.uuids,
              last |-> [op |-> op, input |-> NoProject, ok |-> TRUE]]
        ELSE [phase |-> "run",
              projects |-> base.projects
                             \o (IF HasId(base.projects, queue[1].id) THEN <<>> ELSE queue),
              activeProjectId |-> queue[1].id, uuids |-> base.uuids,
              last |-> [op |-> "importUrl", input |-> queue[1], ok |-> TRUE]]

Queues == { <<>> } \cup { <<p>> : p \in ImportInputs }

\* the first visit: nothing is saved
PrjInit ==
    /\ prj \in {Loaded([projects |-> <<>>, activeProjectId |-> NoId], q, 0, "load") :
                  q \in Queues}
    /\ cdc = CodecIdle
    /\ rec = RecIdle
    /\ qry = QryIdle
    /\ AppInit

\* a later visit: what the save effect stored is loaded
PrjReload ==
    /\ \E q \in Queues :
          /\ Len(prj.projects) < MaxProjects
          /\ prj' = Loaded([projects |-> prj.projects,
                            activeProjectId |-> prj.activeProjectId],
                           q, prj.uuids, "load")
    /\ UNCHANGED <<cdc, rec, qry, appVars>>

handleCreateProject ==
    /\ Len(prj.projects) < MaxProjects
    /\ prj.uuids < MaxUuids
    /\ prj' = [prj EXCEPT !.projects = Append(prj.projects, createEmptyProject(prj.uuids + 1)),
                          !.activeProjectId = Uuid(prj.uuids + 1),
                          !.uuids = prj.uuids + 1,
                          !.last = [op |-> "create", input |-> NoProject, ok |-> TRUE]]
    /\ UNCHANGED <<cdc, rec, qry, appVars>>

\* handleImportProject, once the file is read
handleImportProject ==
    /\ Len(prj.projects) < MaxProjects
    /\ prj.uuids < MaxUuids
    /\ \E content \in ImportInputs :
          LET newProject == importProject(content, prj.uuids + 1)
          IN  IF newProject = ImportError
              THEN prj' = [prj EXCEPT
                             !.last = [op |-> "importFile", input |-> content, ok |-> FALSE]]
              ELSE prj' = [prj EXCEPT
                             !.projects = Append(prj.projects, newProject),
                             !.activeProjectId = newProject.id,
                             !.uuids = prj.uuids + 1,
                             !.last = [op |-> "importFile", input |-> content, ok |-> TRUE]]
    /\ UNCHANGED <<cdc, rec, qry, appVars>>

\* a project of the sidebar is clicked
SelectProject ==
    /\ \E i \in 1..Len(prj.projects) :
          prj' = [prj EXCEPT !.activeProjectId = prj.projects[i].id,
                             !.last = [op |-> "select", input |-> NoProject, ok |-> TRUE]]
    /\ UNCHANGED <<cdc, rec, qry, appVars>>

handleDeleteProject ==
    /\ HasId(prj.projects, prj.activeProjectId)
    /\ LET remaining == WithoutId(prj.projects, prj.activeProjectId)
       IN  IF remaining = <<>>
           THEN /\ prj.uuids < MaxUuids
                /\ prj' = [prj EXCEPT
                             !.projects = <<createEmptyProject(prj.uuids + 1)>>,
                             !.activeProjectId = Uuid(prj.uuids + 1),
                             !.uuids = prj.uuids + 1,
                             !.last = [op |-> "delete", input |-> NoProject, ok |-> TRUE]]
           ELSE prj' = [prj EXCEPT
                          !.projects = remaining,
                          !.activeProjectId = remaining[1].id,
                          !.last = [op |-> "delete", input |-> NoProject, ok |-> TRUE]]
    /\ UNCHANGED <<cdc, rec, qry, appVars>>

PrjNext ==
    \/ PrjReload \/ handleCreateProject \/ handleImportProject
    \/ SelectProject \/ handleDeleteProject

SpecProjects == PrjInit /\ [][PrjNext]_vars

\* the step is an import: from a file, or from the URL
IsImport == prj'.last.op \in {"importFile", "importUrl"}

Lacks(p) ==
    p.id = NoId \/ p.name = "absent" \/ p.config = "absent" \/ p.rows = "absent"

\* C27: an import of an input that lacks id, name, config or rows fails and leaves
\* the project list and the active project as they were; an input with all four
\* is accepted; from a file and from the URL alike.
C27_ImportValidates ==
    [][IsImport =>
          IF Lacks(prj'.last.input)
          THEN /\ ~prj'.last.ok
               /\ prj'.projects = prj.projects
               /\ prj'.activeProjectId = prj.activeProjectId
          ELSE prj'.last.ok
     ]_vars

\* C28: the project added by an import has an id different from the id of the
\* input, and no two projects of the list have the same id.
C28_FreshIdentity ==
    /\ [](\A i, j \in 1..Len(prj.projects) :
             i # j => prj.projects[i].id # prj.projects[j].id)
    /\ [][(IsImport /\ Len(prj'.projects) = Len(prj.projects) + 1)
             => prj'.projects[Len(prj'.projects)].id # prj'.last.input.id]_vars

(***************************************************************************)
(* The leaves of a document and where they are                             *)
(***************************************************************************)
RECURSIVE LeavesFrom(_, _, _)
RECURSIVE LeavesOf(_, _)
\* the scalar leaves of d, each with its path: the object keys and array indices
\* from the root down to it
LeavesOf(d, path) ==
    IF IsContainer(d) THEN LeavesFrom(d, path, 1)
    ELSE <<[path |-> path, val |-> d]>>
LeavesFrom(d, path, i) ==
    IF i > Len(d.m) THEN <<>>
    ELSE LeavesOf(d.m[i].v, Append(path, d.m[i].k)) \o LeavesFrom(d, path, i + 1)

RECURSIVE Dotted(_)
\* the segments of a path, as they are, joined by "."
Dotted(path) ==
    IF Len(path) = 1 THEN path[1] ELSE path[1] \o <<".">> \o Dotted(Tail(path))

RECURSIVE ValueAt(_, _)
\* what document d holds at a path, undefined when the path leaves d
ValueAt(d, path) ==
    IF path = <<>> THEN d ELSE ValueAt(GetMember(d, path[1]), Tail(path))

IsPrefix(p, q) == Len(p) <= Len(q) /\ SubSeq(q, 1, Len(p)) = p

\* C29: flattenObject emits one entry per scalar leaf and none for a container, the
\* key of a leaf being its path with the object keys and the array indices written
\* as they are and joined by "." ({"a":{"b":"Hello"}} gives a.b -> Hello).
C29_DottedLeafPaths ==
    cdc.phase = "flat" =>
        LET leaves == LeavesOf(cdc.doc, <<>>)
        IN  /\ Len(cdc.flat) = Len(leaves)
            /\ {cdc.flat[i] : i \in 1..Len(cdc.flat)}
                  = {[k |-> Dotted(leaves[i].path), v |-> leaves[i].val] :
                        i \in 1..Len(leaves)}

(***************************************************************************)
(* Codec run over a base: the flattening of one document is unflattened    *)
(* over another document                                                   *)
(***************************************************************************)
RECURSIVE Chain(_)
\* a document of which every container has at most one member
Chain(d) == Len(d.m) <= 1 /\ \A i \in 1..Len(d.m) : Chain(d.m[i].v)

\* the documents that are flattened: chains, nested to at most depth levels
UnflattenDocs(depth) == {d \in CodecDocs(depth) : Chain(d)}
\* the documents that serve as base: flat objects and arrays of up to two members
UnflattenBases(depth) == CodecDocs(depth - 1)

UnflattenInit ==
    /\ cdc \in {[phase |-> "input", doc |-> d, base |-> b, flat |-> <<>>,
                 out |-> Undefined] :
                  d \in UnflattenDocs(MaxDepth), b \in UnflattenBases(MaxDepth)}
    /\ rec = RecIdle
    /\ qry = QryIdle
    /\ prj = PrjIdle
    /\ AppInit

CodecUnflattenOver ==
    /\ cdc.phase = "flat"
    /\ cdc' = [cdc EXCEPT !.phase = "done", !.out = unflattenObject(cdc.flat, cdc.base)]
    /\ UNCHANGED <<rec, qry, prj, appVars>>

UnflattenNext == CodecFlatten \/ CodecUnflattenOver

SpecUnflatten == UnflattenInit /\ [][UnflattenNext]_vars

\* C30: unflattenObject(mapping, base) holds the value of every entry of the mapping
\* at the entry's path, whatever base held there or above, and holds every leaf of
\* base that no entry addresses.
C30_UnflattenOverBase ==
    cdc.phase = "done" =>
        LET entries == LeavesOf(cdc.doc, <<>>)
            kept == LeavesOf(cdc.base, <<>>)
        IN  /\ \A i \in 1..Len(entries) :
                  ValueAt(cdc.out, entries[i].path) = entries[i].val
            /\ \A j \in 1..Len(kept) :
                  (\A i \in 1..Len(entries) :
                      /\ ~IsPrefix(entries[i].path, kept[j].path)
                      /\ ~IsPrefix(kept[j].path, entries[i].path))
                    => ValueAt(cdc.out, kept[j].path) = kept[j].val


(***************************************************************************)
(* Tag run: a project is fetched, some of its rows hold a suggestion, some *)
(* are in flight, and a one-clause query is typed into the search box      *)
(***************************************************************************)
\* an array at the top level, an array inside an object, an object whose key is a number
TagSourceDocs ==
    { ArrOf(<<StrV(<<"x">>), StrV(<<"y">>)>>),
      ObjV(<<Member(KA, ArrOf(<<StrV(<<"x">>)>>)), Member(KB, StrV(<<"y">>))>>),
      ObjV(<<Member(<<"5">>, StrV(<<"x">>)), Member(KA, StrV(<<" ">>))>>) }

TagTargetDocs == { ObjV(<<>>) }

\* the clauses typed into the search box
TagClauses ==
    { <<>>, <<" ">>, <<" ", "\t">>, <<"x">>,
      TagInArray, TagNoAi, TagAi, TagDone, TagDoing }

\* the fetched table with the suggestion "s" on the rows whose keys are in withAi
TagTable(source, target, withAi) ==
    LET fetched == Reconcile(<<>>, source, target)
    IN  [i \in 1..Len(fetched) |->
            IF fetched[i].key \in withAi
            THEN [fetched[i] EXCEPT !.aiSuggestion = <<"s">>]
            ELSE fetched[i]]

TagInit ==
    /\ \E source \in TagSourceDocs, target \in TagTargetDocs :
          LET keys == RowKeys(Reconcile(<<>>, source, target))
          IN  \E withAi \in SUBSET keys, l \in SUBSET keys :
                 LET t == TagTable(source, target, withAi)
                 IN  qry = [phase |-> "ready", table |-> t, aiLoading |-> l,
                            clauses |-> <<>>, out |-> Shown(t, <<>>, l)]
    /\ cdc = CodecIdle
    /\ rec = RecIdle
    /\ prj = PrjIdle
    /\ AppInit

\* the search box onChange with a query of one clause, then the render
TagSearch ==
    /\ qry.phase = "ready"
    /\ \E c \in TagClauses :
          qry' = [qry EXCEPT !.phase = "shown", !.clauses = <<c>>,
                             !.out = Shown(qry.table, c, qry.aiLoading)]
    /\ UNCHANGED <<cdc, rec, prj, appVars>>

TagNext == TagSearch \/ QryClear

SpecTags == TagInit /\ [][TagNext]_vars

\* the text after the last "." of the key (the whole key when it has none) is a number
FinalSegmentNumeric(key) ==
    LET segments == Split(key, ".")
        final == segments[Len(segments)]
    IN  final # <<>> /\ \A j \in 1..Len(final) : final[j] \in Digits

\* C31: the query #inarray shows exactly the rows whose key ends in a numeric
\* segment, the rows whose key is a single numeric segment (a leaf of an array at
\* the top level) included.
C31_InArrayFinalSegment ==
    (qry.phase = "shown" /\ qry.clauses = <<TagInArray>>) =>
        PosSet(qry.out.shown) =
            {i \in 1..Len(qry.table) : FinalSegmentNumeric(qry.table[i].key)}


\* C33: the query #noai shows no row whose aiSuggestion is not empty, in any
\* loading state, and no row matches both #ai and #noai.
C33_NoAiExcludesSuggested ==
    qry.phase = "shown" =>
        /\ qry.clauses = <<TagNoAi>> =>
              \A i \in PosSet(qry.out.shown) : qry.table[i].aiSuggestion = <<>>
        /\ qry.clauses = <<TagAi>> =>
              PosSet(qry.out.shown) \cap MatchedBy(TagNoAi) = {}

\* the query holds nothing but white space
WhiteSpaceOnly(query) == \A j \in 1..Len(query) : query[j] \in WhiteSpace

\* every position of the table, in order
AllRows(table) == [i \in 1..Len(table) |-> i]

\* C34: an empty query, and a query of white space only, shows every row of the
\* table, whatever the rows hold and whichever rows are in flight.
C34_EmptyQueryShowsAll ==
    (qry.phase \in {"ready", "shown"}
       /\ (qry.clauses = <<>> \/ (Len(qry.clauses) = 1 /\ WhiteSpaceOnly(qry.clauses[1])))) =>
        /\ ~qry.out.threw
        /\ qry.out.shown = AllRows(qry.table)

\* the query " \t" over a table of two rows, one with a suggestion, one in flight,
\* neither with white space in its key or its source: both are shown
C34_Witness ==
    /\ qry.phase = "shown"
    /\ qry.clauses = << <<" ", "\t">> >>
    /\ Len(qry.table) = 2
    /\ qry.out.shown = <<1, 2>>
    /\ qry.aiLoading # {}
    /\ \E i \in 1..2 : qry.table[i].aiSuggestion # <<>>
    /\ \A i \in 1..2 : ~Includes(qry.table[i].sourceValue, <<" ">>)

(***************************************************************************)
(* The per-row request and its mark                                        *)
(***************************************************************************)
\* the per-row handlers that end in this step: returned, or reached their catch
EndedOnes ==
    {t \in 1..Len(tasks) :
        tasks[t].kind = "one" /\ Pending(tasks') = Pending(RemoveAt(tasks, t))}

\* a per-row handler was started in this step and is suspended at its request
StartedOne ==
    /\ Len(tasks') = Len(tasks) + 1
    /\ tasks'[Len(tasks')].kind = "one"

\* C35: SuggestOne marks its row in-flight before its request is issued, and when
\* the request has ended, with a suggestion, with an empty result or with a failure,
\* the row is not marked in-flight.
C35_OneMarkedThenCleared ==
    [][/\ StartedOne => ItemKeys(tasks'[Len(tasks')].items) \subseteq rowAiLoading'
       /\ \A t \in EndedOnes : ItemKeys(tasks[t].items) \cap rowAiLoading' = {}]_vars

(***************************************************************************)
(* The row operations of the editor: commit, discard, edit                 *)
(***************************************************************************)
\* the step leaves the table as it was but for the field of row i, which holds value;
\* the in-flight marks and the fetched target are as they were
OnlyFieldOf(i, field, value) ==
    /\ Len(rows') = Len(rows)
    /\ \A j \in 1..Len(rows) :
          heap'[rows'[j]] = IF j = i THEN [heap[rows[j]] EXCEPT ![field] = value]
                            ELSE heap[rows[j]]
    /\ rowAiLoading' = rowAiLoading
    /\ originalTargetData' = originalTargetData

C36_PushSetsBaseline ==
    [][/\ PushDone =>
             /\ Len(rows') = Len(rows)
             /\ \A i \in 1..Len(rows) :
                   heap'[rows'[i]] =
                       [heap[rows[i]] EXCEPT !.originalTargetValue = heap[rows[i]].targetValue]
       /\ PushFail => Deref(heap', rows') = Deref(heap, rows)]_vars


(***************************************************************************)
(* Outstanding requests and the in-flight marks                            *)
(***************************************************************************)
\* the keys of the request that handler t is suspended at
Outstanding(t) == ItemKeys(Chunk(tasks[t]))

\* no key is in the outstanding requests of two handlers
ExclusiveRequests ==
    \A t, u \in 1..Len(tasks) : t # u => Outstanding(t) \cap Outstanding(u) = {}

\* C37: in every reachable state a row that is part of an outstanding provider
\* request is marked in-flight, and no row key is part of two provider requests
\* outstanding at the same time, however SuggestOne requests and SuggestAll runs
\* interleave.
C37_OutstandingIsMarked ==
    /\ \A t \in 1..Len(tasks) : Outstanding(t) \subseteq rowAiLoading
    /\ ExclusiveRequests


\* the handlers whose request is answered in this step: the handler ends, or a bulk
\* run moves on to its next chunk
AnsweredHandlers ==
    {t \in 1..Len(tasks) :
        \/ Pending(tasks') = Pending(RemoveAt(tasks, t))
        \/ /\ Len(tasks') = Len(tasks)
           /\ tasks'[t].i # tasks[t].i}

\* the keys of the table that the request of handler t did not send
NotSent(t) == KeysOf(heap, rows) \ Outstanding(t)

\* C38: a suggestion request writes aiSuggestion only on the rows it sent: the step
\* that takes in its answer leaves the aiSuggestion of every other row as it was,
\* whatever keys the answer holds.
C38_WritesOnlySent ==
    [][\A t \in AnsweredHandlers :
          Suggestions(Deref(heap', rows'), NotSent(t))
              = Suggestions(Deref(heap, rows), NotSent(t))]_vars


(***************************************************************************)
(* #done and #doing over the tables that fetches, edits and pushes reach   *)
(***************************************************************************)
\* C39: in every state reached by fetches, edits, suggestion commits, reverts and
\* pushes, each row is matched by exactly one of the queries #done and #doing.
C39_DoneXorDoing ==
    \A i \in 1..Len(rec.tbl) :
        MatchesTag(rec.tbl[i], TagDone) # MatchesTag(rec.tbl[i], TagDoing)

====
